---- MODULE Spec2Model ----
(***************************************************************************)
(* Model of scripts/gantt-click-conf.py: the ClickUp -> Gantt PNG ->        *)
(* Confluence synchroniser.  The orchestrator (__main__, process_mapping),  *)
(* the Task Fetcher (get_lists_from_folder, get_clickup_tasks,              *)
(* get_all_tasks_from_source), the Chart Renderer (generate_gantt_image)    *)
(* and the Document Publisher (upload_attachment_to_confluence,             *)
(* update_confluence_with_image) are modelled with one action per remote    *)
(* request or local step; the outcome of each remote request is chosen by   *)
(* the environment.                                                         *)
(***************************************************************************)
EXTENDS Integers, Sequences, FiniteSets, TLC

VARIABLES
    page,           \* the page two concurrent runs publish to
    runs,           \* the concurrent runs: position and locals of each
    config_file,    \* config.json: absent, unreadable or readable
    environ,        \* the environment variables load_config reads
    creds,          \* the credentials the loaded config holds
    index,          \* load_config: index of the discovery loop
    mappings,       \* config["mappings"]
    world,          \* what the task tracker holds: the folder's lists, each list's tasks
    pc,             \* position of the process
    idx,            \* 1-based position of the mapping loop of __main__
    results,        \* __main__: results (the "success" field of each entry)
    summary,        \* __main__: total / successful / failed as printed
    exit_code,      \* the process exit code, -1 while running
    source_type,    \* process_mapping: source_type
    source_id,      \* process_mapping: source_id
    lists,          \* get_all_tasks_from_source: lists
    list_pos,       \* get_all_tasks_from_source: position of the loop over lists
    all_tasks,      \* get_all_tasks_from_source: all_tasks
    attempt,        \* loop variable of the retry loop in progress
    call,           \* the Task Fetcher call in progress or last finished (history)
    tasks,          \* process_mapping: tasks (input of generate_gantt_image)
    image,          \* process_mapping: image_buffer, as the chart it encodes
    attachment_id,  \* process_mapping: attachment_id
    steps,          \* history: the steps of the current mapping that returned, with their outcome
    attempted,      \* history: the mappings process_mapping was called for, in call order
    perm_seen,      \* history: a fetcher request of the current mapping got 401/403/404
    doc,            \* the page of the current mapping in the document system
    doc0,           \* history: that page as it was when process_mapping was called
    pub_reqs,       \* history: the publisher's requests of the current mapping, with outcomes
    delete_target,  \* upload_attachment_to_confluence: the title of the attachment to delete
    page_info,      \* update_confluence_with_image: page_info
    payload         \* update_confluence_with_image: payload of the PUT, once submitted

vars == <<page, runs, config_file, environ, creds, index, mappings, world, pc, idx, results, summary, exit_code, source_type,
          source_id, lists, list_pos, all_tasks, attempt, call, tasks, image,
          attachment_id, steps, attempted, perm_seen, doc, doc0, pub_reqs,
          delete_target, page_info, payload>>

----------------------------------------------------------------------------
(* Bounds of the model. *)

\* longest configured list of mappings
MaxMappings == 2
\* longest task list handed to the renderer on its own
MaxTasks == 3
\* the day, counted from the epoch, that the model's "Day 0" stands for
DayZero == 10

----------------------------------------------------------------------------
(* Python values. *)

\* None / a list value, with Python's truthiness of both
None == [isNone |-> TRUE, val |-> <<>>]
Some(v) == [isNone |-> FALSE, val |-> v]
Falsy(x) == x.isNone \/ x.val = <<>>

\* a JSON timestamp field: null, a number, a string of digits, any other string
Null == [kind |-> "null", v |-> 0]
Num(n) == [kind |-> "num", v |-> n]
Str(n) == [kind |-> "str", v |-> n]
Bad == [kind |-> "bad", v |-> 0]

\* `not timestamp` is false for these
Truthy(ts) ==
    CASE ts.kind = "null" -> FALSE
      [] ts.kind = "num" -> ts.v # 0
      [] ts.kind = "str" -> TRUE
      [] ts.kind = "bad" -> TRUE

\* a naive datetime: seconds and microseconds; or None
NoDate == [isNone |-> TRUE, sec |-> 0, usec |-> 0]
Date(s, u) == [isNone |-> FALSE, sec |-> s, usec |-> u]

SecPerDay == 86400
MsPerDay == SecPerDay * 1000

\* timedelta(days = n) added to a datetime
AddDays(d, n) == [d EXCEPT !.sec = @ + n * SecPerDay]

DateLess(a, b) == a.sec < b.sec \/ (a.sec = b.sec /\ a.usec < b.usec)

\* (b - a).days: whole days, rounded down
DaysBetween(a, b) ==
    IF b.usec >= a.usec THEN (b.sec - a.sec) \div SecPerDay
    ELSE (b.sec - a.sec - 1) \div SecPerDay

----------------------------------------------------------------------------
(* Chart Renderer. *)

\* int(timestamp) / 1000 seconds since the epoch, as a datetime
clickup_timestamp_to_date(timestamp) ==
    IF ~Truthy(timestamp) THEN NoDate
    ELSE IF timestamp.kind = "bad" THEN NoDate
    ELSE Date(timestamp.v \div 1000, (timestamp.v % 1000) * 1000)

\* the loop body of "Filtrar tareas con fechas": <<>> for a dropped task
ResolveTask(task) ==
    LET start_date == clickup_timestamp_to_date(task.start_date)
        due_date == clickup_timestamp_to_date(task.due_date)
    IN  IF start_date.isNone /\ due_date.isNone THEN <<>>
        ELSE LET start2 == IF start_date.isNone /\ ~due_date.isNone
                           THEN AddDays(due_date, -1) ELSE start_date
                 due2 == IF ~start2.isNone /\ due_date.isNone
                         THEN AddDays(start2, 1) ELSE due_date
             IN  <<[name |-> task.name, start |-> start2, end |-> due2,
                    status |-> task.status]>>

RECURSIVE ValidTasks(_)
ValidTasks(ts) ==
    IF ts = <<>> THEN <<>> ELSE ResolveTask(Head(ts)) \o ValidTasks(Tail(ts))

\* list.sort(key = start): stable, ascending
RECURSIVE InsertByStart(_, _)
InsertByStart(s, t) ==
    IF s = <<>> THEN <<t>>
    ELSE IF DateLess(t.start, Head(s).start) THEN <<t>> \o s
    ELSE <<Head(s)>> \o InsertByStart(Tail(s), t)

RECURSIVE SortByStart(_)
SortByStart(s) ==
    IF s = <<>> THEN <<>>
    ELSE InsertByStart(SortByStart(SubSeq(s, 1, Len(s) - 1)), s[Len(s)])

Reversed(s) == [i \in 1..Len(s) |-> s[Len(s) + 1 - i]]

RECURSIVE MinStart(_)
MinStart(s) ==
    IF Len(s) = 1 THEN s[1].start
    ELSE LET m == MinStart(Tail(s))
         IN  IF DateLess(m, s[1].start) THEN m ELSE s[1].start

MaxEndOfLast(s) == s[Len(s)].end

RECURSIVE MaxEnd(_)
MaxEnd(s) ==
    IF Len(s) = 1 THEN s[1].end
    ELSE LET m == MaxEnd(Tail(s))
         IN  IF DateLess(s[1].end, m) THEN m ELSE s[1].end


\* a status label is a sequence of characters
\* str.upper(), on the letters a-z
UpperChar(c) ==
    CASE c = "a" -> "A"
      [] c = "b" -> "B"
      [] c = "c" -> "C"
      [] c = "d" -> "D"
      [] c = "e" -> "E"
      [] c = "f" -> "F"
      [] c = "g" -> "G"
      [] c = "h" -> "H"
      [] c = "i" -> "I"
      [] c = "j" -> "J"
      [] c = "k" -> "K"
      [] c = "l" -> "L"
      [] c = "m" -> "M"
      [] c = "n" -> "N"
      [] c = "o" -> "O"
      [] c = "p" -> "P"
      [] c = "q" -> "Q"
      [] c = "r" -> "R"
      [] c = "s" -> "S"
      [] c = "t" -> "T"
      [] c = "u" -> "U"
      [] c = "v" -> "V"
      [] c = "w" -> "W"
      [] c = "x" -> "X"
      [] c = "y" -> "Y"
      [] c = "z" -> "Z"
      [] OTHER -> c

Upper(str) == [i \in 1..Len(str) |-> UpperChar(str[i])]

\* key in text
Contains(key, text) ==
    \E off \in 0..(Len(text) - Len(key)) : SubSeq(text, off + 1, off + Len(key)) = key

\* "Configurar colores estilo ClickUp", in the order of the dict
status_colors ==
    << [key |-> <<"A", "C", "H", "I", "E", "V", "E", "D">>, col |-> "#8dd879"],
       [key |-> <<"C", "O", "M", "P", "L", "E", "T", "E">>, col |-> "#8dd879"],
       [key |-> <<"C", "O", "M", "P", "L", "E", "T", "E", "D">>, col |-> "#8dd879"],
       [key |-> <<"A", "P", "P", "R", "O", "V", "E", "D">>, col |-> "#8dd879"],
       [key |-> <<"F", "I", "N", "A", "L", "I", "Z", "E", "D">>, col |-> "#8dd879"],
       [key |-> <<"D", "O", "N", "E">>, col |-> "#8dd879"],
       [key |-> <<"C", "L", "O", "S", "E", "D">>, col |-> "#8dd879"],
       [key |-> <<"M", "O", "N", "I", "T", "O", "R", "I", "N", "G">>, col |-> "#a8c5f0"],
       [key |-> <<"I", "M", "P", "L", "E", "M", "E", "N", "T", "I", "N", "G">>, col |-> "#a8c5f0"],
       [key |-> <<"P", "R", "O", "G", "R", "E", "S", "S">>, col |-> "#a8c5f0"],
       [key |-> <<"R", "E", "V", "I", "E", "W", "I", "N", "G">>, col |-> "#a8c5f0"],
       [key |-> <<"I", "N", " ", "P", "R", "O", "G", "R", "E", "S", "S">>, col |-> "#a8c5f0"],
       [key |-> <<"T", "O", "D", "O">>, col |-> "#e0e0e0"],
       [key |-> <<"T", "O", " ", "D", "O">>, col |-> "#e0e0e0"],
       [key |-> <<"O", "P", "E", "N">>, col |-> "#e0e0e0"],
       [key |-> <<"D", "R", "A", "F", "T", "I", "N", "G">>, col |-> "#e0e0e0"],
       [key |-> <<"N", "O", "T", " ", "S", "T", "A", "R", "T", "E", "D">>, col |-> "#e0e0e0"] >>

RECURSIVE FirstMatch(_, _, _)
\* `for key, col in status_colors.items(): if key in text: color = col; break`
FirstMatch(text, i, default) ==
    IF i > Len(status_colors) THEN default
    ELSE IF Contains(status_colors[i].key, text) THEN status_colors[i].col
    ELSE FirstMatch(text, i + 1, default)

StatusColorCaseSensitive(status) == FirstMatch(status, 1, "#e0e0e0")

\* "Color según status"
StatusColor(status) == FirstMatch(Upper(status), 1, "#e0e0e0")

DrawOrderUnreversed(sorted) == sorted

\* "Dibujar barras": the order the tasks are enumerated in
DrawOrder(sorted) == Reversed(sorted)

\* the bars: enumerate(reversed(valid_tasks)), bar idx at vertical position idx
Bars(sorted) ==
    LET order == DrawOrder(sorted)
    IN  [i \in 1..Len(order) |->
            [idx |-> i - 1,
             name |-> order[i].name,
             color |-> StatusColor(order[i].status),
             left |-> order[i].start,
             duration |-> DaysBetween(order[i].start, order[i].end) + 1]]

NoImage == [isNone |-> TRUE, valid_tasks |-> <<>>, bars |-> <<>>, xlim |-> <<>>]

generate_gantt_image(ts) ==
    LET valid_tasks == ValidTasks(ts)
    IN  IF valid_tasks = <<>> THEN NoImage
        ELSE LET sorted == SortByStart(valid_tasks)
             IN  [isNone |-> FALSE,
                  valid_tasks |-> sorted,
                  bars |-> Bars(sorted),
                  xlim |-> <<AddDays(MinStart(sorted), -7),
                             AddDays(MaxEnd(sorted), 7)>>]

----------------------------------------------------------------------------
(* Inputs of the renderer. *)

Day(k) == (DayZero + k) * MsPerDay

StartRaw == {Null, Num(0), Str(Day(0)), Str(Day(3) + 1500), Bad}
DueRaw == {Null, Str(0), Str(Day(2)), Str(Day(5))}

TaskName(i) == <<"A", "B", "C", "D", "E", "F">>[i]

\* a task record as the renderer reads it
TaskS(n, s, d, st) == [name |-> n, start_date |-> s, due_date |-> d, status |-> st]

Task(n, s, d) == TaskS(n, s, d, <<"O", "p", "e", "n">>)

\* the task list of n records with the given start and due fields
TaskList(n, sd) == [i \in 1..n |-> Task(TaskName(i), sd[i][1], sd[i][2])]

----------------------------------------------------------------------------
(* The configuration and the remote task tracker. *)

\* a key the mapping does not carry (mapping.get(...) is falsy)
NoId == ""

Mapping(l, f) == [clickup_list_id |-> l, clickup_folder_id |-> f]

MappingChoices == {Mapping(l, f) : l \in {NoId, "L1"}, f \in {NoId, "F1"}}

MappingLists == UNION {[1..n -> MappingChoices] : n \in 0..MaxMappings}

TA == Task("A", Str(Day(0)), Str(Day(2)))
TB == Task("B", Null, Str(Day(5)))
TC == Task("C", Null, Null)

\* the folder's lists and the tasks each list holds
Worlds ==
    { [folder_lists |-> <<"L1", "L2">>, list_tasks |-> [L1 |-> <<TA>>, L2 |-> <<TB, TC>>]],
      [folder_lists |-> <<"L1", "L2">>, list_tasks |-> [L1 |-> <<TC>>, L2 |-> <<>>]],
      [folder_lists |-> <<>>, list_tasks |-> [L1 |-> <<>>, L2 |-> <<TA>>]] }

\* how one request to the task tracker can end: a 200 with the expected JSON
\* object, a timeout, a connection failure, a 401/403/404, another error status,
\* a 200 whose JSON body is not an object (a list, say)
FetchOutcomes == {"ok", "timeout", "connerr", "s401", "s403", "s404", "httperr", "malformed"}

\* how one request to the document system can end: "timeout" is any transport
\* failure (Timeout, ConnectionError: the server may or may not have carried the
\* request out), "httperr" an error status, "malformed" a 200 whose JSON body
\* lacks the keys the caller reads
PubOutcomes == {"ok", "timeout", "httperr", "malformed"}

----------------------------------------------------------------------------
(* Task Fetcher: one iteration of a retry loop. *)

max_retries == 3

TimeoutFlat(att) == 15

\* timeout = 15 + (attempt * 5)
Timeout(att) == 15 + (att * 5)

Return(v) == [k |-> "return", val |-> v]
Raise == [k |-> "raise", val |-> None]
Continue == [k |-> "continue", val |-> None]

OnTransientGiveUp(att) == Return(None)

\* the except clause of requests.exceptions.Timeout / ConnectionError: give up on
\* the last attempt, else fall to the next iteration (line 169/216 after the last)
OnTransient(att) ==
    IF att = max_retries - 1 THEN Return(None)
    ELSE IF att + 1 < max_retries THEN Continue
    ELSE Return(None)

\* get_lists_from_folder, the body of `for attempt in range(max_retries)`
get_lists_from_folder_iter(att, o) ==
    CASE o = "s404" -> Return(None)
      [] o = "s401" -> Return(None)
      [] o = "s403" -> Return(None)
      [] o = "httperr" -> Return(None)
      [] o = "ok" -> Return(Some(world.folder_lists))
      [] o = "malformed" -> Raise
      [] o = "timeout" -> OnTransient(att)
      [] o = "connerr" -> OnTransient(att)

\* get_clickup_tasks, the body of `for attempt in range(max_retries)`; a 403
\* reaches raise_for_status and the RequestException clause
get_clickup_tasks_iter(att, o, list_id) ==
    CASE o = "s404" -> Return(None)
      [] o = "s401" -> Return(None)
      [] o = "s403" -> Return(None)
      [] o = "httperr" -> Return(None)
      [] o = "ok" -> Return(Some(world.list_tasks[list_id]))
      [] o = "malformed" -> Raise
      [] o = "timeout" -> OnTransient(att)
      [] o = "connerr" -> OnTransient(att)

NoCall == [fn |-> "", arg |-> "", sent |-> <<>>, outcomes |-> <<>>,
           done |-> FALSE, ret |-> None, raised |-> FALSE]

\* the call record after one more request with timeout t ended as o
Requested(fn, arg, att, o) ==
    LET base == IF att = 0
                THEN [NoCall EXCEPT !.fn = fn, !.arg = arg]
                ELSE call
    IN  [base EXCEPT !.sent = Append(@, Timeout(att)), !.outcomes = Append(@, o)]

PermanentStatus == {"s401", "s403", "s404"}

----------------------------------------------------------------------------
(* Orchestrator. *)

Count(s, b) == Cardinality({i \in 1..Len(s) : s[i] = b})

ExitCodeAlwaysZero(failed) == 0

\* sys.exit(0 if failed == 0 else 1)
ExitCode(failed) == IF failed = 0 THEN 0 ELSE 1

NoSummary == [total |-> -1, successful |-> -1, failed |-> -1]

Step(name, ok) == [step |-> name, ok |-> ok]

\* the attachment name of this run and that of an earlier day
FileName == "gantt-today.png"
OldName == "gantt-yesterday.png"

NoDoc == [version |-> 0, title |-> "", type |-> "", attachments |-> {}, body |-> ""]

Doc(atts, b) == [version |-> 1, title |-> "Plan", type |-> "page",
                 attachments |-> atts, body |-> b]

\* the target page before a mapping is processed: with or without attachments,
\* its body showing one of them or none
DocChoices ==
    { Doc({}, ""), Doc({OldName}, OldName), Doc({FileName}, FileName),
      Doc({OldName, FileName}, OldName) }

NoPage == [version |-> 0, title |-> "", type |-> ""]
NoPayload == [version |-> 0, title |-> "", type |-> "", filename |-> ""]

pubVars == <<doc, doc0, pub_reqs, delete_target, page_info, payload>>

\* nothing published, no page in sight
PubIdle ==
    /\ doc = NoDoc
    /\ doc0 = NoDoc
    /\ pub_reqs = <<>>
    /\ delete_target = ""
    /\ page_info = NoPage
    /\ payload = NoPayload

\* an environment variable that is not defined, or defined as the empty string
Unset == [list |-> NoId, folder |-> NoId, page |-> NoId]

NoEnviron == [creds |-> {}, legacy |-> Unset, projects |-> <<>>]

\* the credentials load_config requires: confluence url, user and api_token,
\* clickup api_token
Credentials ==
    {"confluence_url", "confluence_user", "confluence_api_token", "clickup_api_token"}

Confluence == Credentials \ {"clickup_api_token"}

\* a single run of the process
OneRun == page = NoDoc /\ runs = <<>>

\* load_config returned the content of a config.json with every credential
ConfigLoaded ==
    /\ OneRun
    /\ config_file = "readable"
    /\ environ = NoEnviron
    /\ creds = Credentials
    /\ index = 0

Init ==
    /\ ConfigLoaded
    /\ mappings \in MappingLists
    /\ world \in Worlds
    /\ pc = "main"
    /\ idx = 1
    /\ results = <<>>
    /\ summary = NoSummary
    /\ exit_code = -1
    /\ source_type = ""
    /\ source_id = NoId
    /\ lists = <<>>
    /\ list_pos = 0
    /\ all_tasks = <<>>
    /\ attempt = 0
    /\ call = NoCall
    /\ tasks = <<>>
    /\ image = NoImage
    /\ attachment_id = NoId
    /\ steps = <<>>
    /\ attempted = <<>>
    /\ perm_seen = FALSE
    /\ PubIdle

concVars == <<page, runs>>
configVars == <<config_file, environ, creds, index, mappings, world>>
fetchVars == <<lists, list_pos, all_tasks, attempt, call>>
mainVars == <<idx, results, summary, exit_code, attempted>>

\* __main__ after load_config: "Validar configuración"
MainValidate ==
    /\ pc = "main"
    /\ IF mappings = <<>>
       THEN pc' = "exited" /\ exit_code' = 1
       ELSE pc' = "loop" /\ exit_code' = exit_code
    /\ UNCHANGED <<concVars, configVars, fetchVars, idx, results, summary, attempted,
                   source_type, source_id, tasks, image, attachment_id, steps,
                   perm_seen, pubVars>>

\* process_mapping returns b: results.append(...) and the loop moves on
ReturnFromMapping(b) ==
    /\ results' = Append(results, b)
    /\ idx' = idx + 1
    /\ pc' = "loop"
    /\ UNCHANGED <<concVars, configVars, summary, exit_code, attempted>>

\* an exception leaves process_mapping: nothing in __main__ catches it
Crash ==
    /\ pc' = "crashed"
    /\ exit_code' = 1
    /\ UNCHANGED <<concVars, configVars, idx, results, summary, attempted>>

SourceOfUnchecked(m) ==
    IF m.clickup_list_id # NoId
    THEN [type |-> "list", id |-> m.clickup_list_id]
    ELSE [type |-> "folder", id |-> m.clickup_folder_id]

\* process_mapping: "Determinar si es lista o carpeta"
SourceOf(m) ==
    IF m.clickup_list_id # NoId
    THEN [type |-> "list", id |-> m.clickup_list_id]
    ELSE IF m.clickup_folder_id # NoId
    THEN [type |-> "folder", id |-> m.clickup_folder_id]
    ELSE [type |-> "", id |-> NoId]

\* the loop calls process_mapping for the next mapping, up to its first request
BeginMapping ==
    /\ pc = "loop"
    /\ idx <= Len(mappings)
    /\ attempted' = Append(attempted, idx)
    /\ steps' = <<>>
    /\ perm_seen' = FALSE
    /\ tasks' = <<>>
    /\ image' = NoImage
    /\ attachment_id' = NoId
    /\ lists' = <<>>
    /\ list_pos' = 0
    /\ all_tasks' = <<>>
    /\ attempt' = 0
    /\ call' = NoCall
    /\ doc' = NoDoc
    /\ doc0' = NoDoc
    /\ pub_reqs' = <<>>
    /\ delete_target' = ""
    /\ page_info' = NoPage
    /\ payload' = NoPayload
    /\ LET src == SourceOf(mappings[idx])
       IN  /\ source_id' = src.id
           /\ source_type' = src.type
           /\ CASE src.type = "" ->
                      /\ results' = Append(results, FALSE)
                      /\ idx' = idx + 1
                      /\ pc' = "loop"
                      /\ UNCHANGED exit_code
                [] src.type # "" /\ "clickup_api_token" \notin creds ->
                      \* config["clickup"]["api_token"]: KeyError
                      /\ pc' = "crashed"
                      /\ exit_code' = 1
                      /\ UNCHANGED <<results, idx>>
                [] OTHER ->
                      /\ pc' = IF src.type = "list" THEN "get_clickup_tasks"
                                ELSE "get_lists_from_folder"
                      /\ UNCHANGED <<results, idx, exit_code>>
    /\ UNCHANGED <<concVars, configVars, summary>>

FetchReturnsUnchecked(r) ==
    /\ steps' = Append(steps, Step("fetch", ~Falsy(r)))
    /\ tasks' = r.val
    /\ pc' = "generate_gantt_image"
    /\ UNCHANGED <<concVars, configVars, mainVars>>

\* get_all_tasks_from_source returns r to process_mapping ("1. Obtener tareas")
FetchReturns(r) ==
    IF Falsy(r)
    THEN /\ steps' = Append(steps, Step("fetch", FALSE))
         /\ tasks' = <<>>
         /\ ReturnFromMapping(FALSE)
    ELSE /\ steps' = Append(steps, Step("fetch", TRUE))
         /\ tasks' = r.val
         /\ pc' = "generate_gantt_image"
         /\ UNCHANGED <<concVars, configVars, mainVars>>

\* one request of get_lists_from_folder, and what follows its return
FolderAttempt ==
    /\ pc = "get_lists_from_folder"
    /\ attempt < max_retries
    /\ \E o \in FetchOutcomes :
        LET r == get_lists_from_folder_iter(attempt, o)
            c == Requested("get_lists_from_folder", source_id, attempt, o)
        IN  /\ perm_seen' = (perm_seen \/ o \in PermanentStatus)
            /\ CASE r.k = "continue" ->
                      /\ attempt' = attempt + 1
                      /\ call' = c
                      /\ UNCHANGED <<concVars, configVars, mainVars, pc, lists, list_pos,
                                     all_tasks, tasks, steps>>
                 [] r.k = "raise" ->
                      /\ call' = [c EXCEPT !.done = TRUE, !.raised = TRUE]
                      /\ Crash
                      /\ UNCHANGED <<attempt, lists, list_pos, all_tasks, tasks, steps>>
                 [] r.k = "return" ->
                      /\ call' = [c EXCEPT !.done = TRUE, !.ret = r.val]
                      /\ attempt' = 0
                      /\ all_tasks' = <<>>
                      /\ IF Falsy(r.val)
                         THEN /\ FetchReturns(None)
                              /\ UNCHANGED <<lists, list_pos>>
                         ELSE /\ lists' = r.val.val
                              /\ list_pos' = 1
                              /\ pc' = "get_clickup_tasks"
                              /\ UNCHANGED <<concVars, configVars, mainVars, tasks, steps>>
    /\ UNCHANGED <<source_type, source_id, image, attachment_id, pubVars>>

\* the list the request in progress asks for
CurrentList == IF source_type = "folder" THEN lists[list_pos] ELSE source_id

\* all_tasks once get_clickup_tasks returned t
Extended(t) ==
    IF Falsy(t) THEN all_tasks
    ELSE IF source_type = "folder" THEN all_tasks \o t.val
    ELSE t.val

\* `if not all_tasks: return None`, else the tasks
AllTasksResult(at) == IF at = <<>> THEN None ELSE Some(at)

\* one request of get_clickup_tasks, and what follows its return
ListAttempt ==
    /\ pc = "get_clickup_tasks"
    /\ attempt < max_retries
    /\ \E o \in FetchOutcomes :
        LET r == get_clickup_tasks_iter(attempt, o, CurrentList)
            c == Requested("get_clickup_tasks", CurrentList, attempt, o)
        IN  /\ perm_seen' = (perm_seen \/ o \in PermanentStatus)
            /\ CASE r.k = "continue" ->
                      /\ attempt' = attempt + 1
                      /\ call' = c
                      /\ UNCHANGED <<concVars, configVars, mainVars, pc, lists, list_pos,
                                     all_tasks, tasks, steps>>
                 [] r.k = "raise" ->
                      /\ call' = [c EXCEPT !.done = TRUE, !.raised = TRUE]
                      /\ Crash
                      /\ UNCHANGED <<attempt, lists, list_pos, all_tasks, tasks, steps>>
                 [] r.k = "return" ->
                      /\ call' = [c EXCEPT !.done = TRUE, !.ret = r.val]
                      /\ attempt' = 0
                      /\ all_tasks' = Extended(r.val)
                      /\ lists' = lists
                      /\ IF source_type = "folder" /\ list_pos < Len(lists)
                         THEN /\ list_pos' = list_pos + 1
                              /\ UNCHANGED <<concVars, configVars, mainVars, pc, tasks, steps>>
                         ELSE /\ list_pos' = list_pos
                              /\ FetchReturns(AllTasksResult(Extended(r.val)))
    /\ UNCHANGED <<source_type, source_id, image, attachment_id, pubVars>>

NeverFails(img) == FALSE

\* process_mapping: `if not image_buffer`
RenderFailed(img) == img.isNone

\* "2. Generar imagen"
Render ==
    /\ pc = "generate_gantt_image"
    /\ image' = generate_gantt_image(tasks)
    /\ IF RenderFailed(image')
       THEN /\ steps' = Append(steps, Step("render", FALSE))
            /\ ReturnFromMapping(FALSE)
            /\ UNCHANGED <<doc, doc0>>
       ELSE /\ steps' = Append(steps, Step("render", TRUE))
            /\ IF Confluence \subseteq creds
               THEN \* the publisher is next: the page as it stands by then
                    /\ pc' = "upload_list_attachments"
                    /\ doc' \in DocChoices
                    /\ doc0' = doc'
                    /\ UNCHANGED <<concVars, configVars, mainVars>>
               ELSE \* config["confluence"], confluence_config["url"]: KeyError
                    /\ Crash
                    /\ UNCHANGED <<doc, doc0>>
    /\ UNCHANGED <<fetchVars, source_type, source_id, tasks, attachment_id, perm_seen,
                   pub_reqs, delete_target, page_info, payload>>

pubFrame == <<fetchVars, source_type, source_id, tasks, image, perm_seen, doc0>>

Req(r, o) == [req |-> r, outcome |-> o]

\* `for att in attachments: if att["title"] == filename`: the titles that match
ExistingMatch(attachments, filename) == {t \in attachments : t = filename}

\* where upload_attachment_to_confluence goes after the listing: the DELETE when
\* the listing succeeded and a title matched, the POST in every other case
\* (`except: pass`)
AfterListing(o, match) ==
    IF o = "ok" /\ match # {} THEN "upload_delete" ELSE "upload_post"

\* whether the server carried a request out: always on a 2xx, never on an
\* error status, either way on a transport failure
TakesEffect(o, eff) == o \in {"ok", "malformed"} \/ (o = "timeout" /\ eff)

\* upload_attachment_to_confluence: GET the attachments; anything that goes
\* wrong is swallowed and the upload follows
UploadListAttachments ==
    /\ pc = "upload_list_attachments"
    /\ \E o \in PubOutcomes :
        LET match == ExistingMatch(doc.attachments, FileName)
        IN  /\ pub_reqs' = Append(pub_reqs, Req("list_attachments", o))
            /\ pc' = AfterListing(o, match)
            /\ delete_target' = IF pc' = "upload_delete"
                                THEN CHOOSE t \in match : TRUE ELSE ""
    /\ UNCHANGED <<concVars, configVars, mainVars, pubFrame, attachment_id, steps, doc,
                   page_info, payload>>

\* upload_attachment_to_confluence: DELETE the attachment of the same title;
\* the response is not looked at and an exception is swallowed
UploadDelete ==
    /\ pc = "upload_delete"
    /\ \E o \in PubOutcomes, eff \in BOOLEAN :
        /\ pub_reqs' = Append(pub_reqs, Req("delete", o))
        /\ doc' = IF TakesEffect(o, eff)
                  THEN [doc EXCEPT !.attachments = @ \ {delete_target}]
                  ELSE doc
    /\ pc' = "upload_post"
    /\ UNCHANGED <<concVars, configVars, mainVars, pubFrame, attachment_id, steps,
                   delete_target, page_info, payload>>

\* upload_attachment_to_confluence: POST the file ("3. Subir a Confluence")
UploadPost ==
    /\ pc = "upload_post"
    /\ \E o \in PubOutcomes, eff \in BOOLEAN :
        /\ pub_reqs' = Append(pub_reqs, Req("post", o))
        /\ doc' = IF TakesEffect(o, eff)
                  THEN [doc EXCEPT !.attachments = @ \cup {FileName}]
                  ELSE doc
        /\ CASE o = "ok" ->
                  /\ attachment_id' = "att"
                  /\ steps' = Append(steps, Step("upload", TRUE))
                  /\ pc' = "update_get"
                  /\ UNCHANGED <<concVars, configVars, mainVars>>
             [] o = "malformed" ->
                  /\ Crash
                  /\ UNCHANGED <<attachment_id, steps>>
             [] OTHER ->
                  /\ attachment_id' = NoId
                  /\ steps' = Append(steps, Step("upload", FALSE))
                  /\ ReturnFromMapping(FALSE)
    /\ UNCHANGED <<pubFrame, delete_target, page_info, payload>>

\* update_confluence_with_image: GET the page
UpdateGet ==
    /\ pc = "update_get"
    /\ \E o \in PubOutcomes :
        /\ pub_reqs' = Append(pub_reqs, Req("page_get", o))
        /\ CASE o = "ok" ->
                  /\ page_info' = [version |-> doc.version, title |-> doc.title,
                                   type |-> doc.type]
                  /\ pc' = "update_put"
                  /\ UNCHANGED <<concVars, configVars, mainVars, steps>>
             [] o = "malformed" ->
                  /\ Crash
                  /\ UNCHANGED <<steps, page_info>>
             [] OTHER ->
                  /\ steps' = Append(steps, Step("update", FALSE))
                  /\ ReturnFromMapping(FALSE)
                  /\ UNCHANGED page_info
    /\ UNCHANGED <<pubFrame, attachment_id, doc, delete_target, payload>>

UpdatePayloadSameVersion(info, filename) ==
    [version |-> info.version, title |-> info.title, type |-> info.type,
     filename |-> filename]

\* update_confluence_with_image: payload
UpdatePayload(info, filename) ==
    [version |-> info.version + 1, title |-> info.title, type |-> info.type,
     filename |-> filename]

\* the document system takes an update only at the version after the current one
RemoteAccepts(d, pl) == pl.version = d.version + 1

\* the page once the update pl is stored
Updated(d, pl) == [d EXCEPT !.version = pl.version, !.body = pl.filename]

\* how the PUT of pl can end on page d: a 2xx only if the update is taken
PutOutcomes(d, pl) ==
    IF RemoteAccepts(d, pl) THEN PubOutcomes \ {"malformed"}
    ELSE PubOutcomes \ {"malformed", "ok"}

AlwaysTrue(success) == TRUE

\* process_mapping: `if success: return True`, `else: return False`
MappingResult(success) == success

\* update_confluence_with_image: PUT the new body ("4. Actualizar página")
UpdatePut ==
    /\ pc = "update_put"
    /\ payload' = UpdatePayload(page_info, FileName)
    /\ \E o \in PutOutcomes(doc, payload'), eff \in BOOLEAN :
        /\ pub_reqs' = Append(pub_reqs, Req("put", o))
        /\ doc' = IF TakesEffect(o, eff) /\ RemoteAccepts(doc, payload')
                  THEN Updated(doc, payload') ELSE doc
        /\ steps' = Append(steps, Step("update", o = "ok"))
        /\ ReturnFromMapping(MappingResult(o = "ok"))
    /\ UNCHANGED <<pubFrame, attachment_id, delete_target, page_info>>

\* __main__: "Resumen final" and the exit code
Summarize ==
    /\ pc = "loop"
    /\ idx > Len(mappings)
    /\ LET successful == Count(results, TRUE)
           failed == Len(results) - successful
       IN  /\ summary' = [total |-> Len(results), successful |-> successful,
                          failed |-> failed]
           /\ exit_code' = ExitCode(failed)
    /\ pc' = "exited"
    /\ UNCHANGED <<concVars, configVars, fetchVars, idx, results, attempted, source_type,
                   source_id, tasks, image, attachment_id, steps, perm_seen, pubVars>>

Next ==
    \/ MainValidate
    \/ BeginMapping
    \/ FolderAttempt
    \/ ListAttempt
    \/ Render
    \/ UploadListAttachments
    \/ UploadDelete
    \/ UploadPost
    \/ UpdateGet
    \/ UpdatePut
    \/ Summarize

Spec == Init /\ [][Next]_vars

----------------------------------------------------------------------------
(* The renderer on its own, over every task list of the bounded domain. *)

InitRender ==
    /\ ConfigLoaded
    /\ mappings = <<>>
    /\ world \in {w \in Worlds : w.folder_lists = <<>>}
    /\ pc = "render_input"
    /\ idx = 1
    /\ results = <<>>
    /\ summary = NoSummary
    /\ exit_code = -1
    /\ source_type = ""
    /\ source_id = NoId
    /\ lists = <<>>
    /\ list_pos = 0
    /\ all_tasks = <<>>
    /\ attempt = 0
    /\ call = NoCall
    /\ \E n \in 0..MaxTasks : \E sd \in [1..n -> StartRaw \X DueRaw] :
          tasks = TaskList(n, sd)
    /\ image = NoImage
    /\ attachment_id = NoId
    /\ steps = <<>>
    /\ attempted = <<>>
    /\ perm_seen = FALSE
    /\ PubIdle

RenderApply ==
    /\ pc = "render_input"
    /\ image' = generate_gantt_image(tasks)
    /\ pc' = "render_done"
    /\ UNCHANGED <<concVars, configVars, mainVars, fetchVars, source_type, source_id,
                   tasks, attachment_id, steps, perm_seen, pubVars>>

NextRender == RenderApply

RenderSpec == InitRender /\ [][NextRender]_vars

----------------------------------------------------------------------------
(* The renderer over two dated tasks of any two status labels. *)

\* status labels the tracker may carry
StatusLabels ==
    { <<"C", "O", "M", "P", "L", "E", "T", "E", "D">>,
      <<"c", "o", "m", "p", "l", "e", "t", "e">>,
      <<"D", "o", "n", "e">>,
      <<"c", "l", "o", "s", "e", "d">>,
      <<"A", "p", "p", "r", "o", "v", "e", "d">>,
      <<"a", "c", "h", "i", "e", "v", "e", "d">>,
      <<"f", "i", "n", "a", "l", "i", "z", "e", "d">>,
      <<"i", "n", " ", "p", "r", "o", "g", "r", "e", "s", "s">>,
      <<"P", "R", "O", "G", "R", "E", "S", "S">>,
      <<"r", "e", "v", "i", "e", "w", "i", "n", "g">>,
      <<"I", "m", "p", "l", "e", "m", "e", "n", "t", "i", "n", "g">>,
      <<"m", "o", "n", "i", "t", "o", "r", "i", "n", "g">>,
      <<"t", "o", " ", "d", "o">>,
      <<"T", "O", "D", "O">>,
      <<"O", "p", "e", "n">>,
      <<"d", "r", "a", "f", "t", "i", "n", "g">>,
      <<"N", "o", "t", " ", "S", "t", "a", "r", "t", "e", "d">>,
      <<"S", "i", "n", " ", "S", "t", "a", "t", "u", "s">>,
      <<"b", "l", "o", "c", "k", "e", "d">>,
      <<"I", "n", " ", "R", "e", "v", "i", "e", "w">>,
      <<"p", "r", "o", "g", "r", "e", "s", "s", " ", "d", "o", "n", "e">>,
      <<"r", "e", "o", "p", "e", "n", "e", "d", " ", "-", " ", "c", "l", "o", "s", "e", "d">>,
      <<>> }

InitColor ==
    /\ ConfigLoaded
    /\ mappings = <<>>
    /\ world \in {w \in Worlds : w.folder_lists = <<>>}
    /\ pc = "render_input"
    /\ idx = 1
    /\ results = <<>>
    /\ summary = NoSummary
    /\ exit_code = -1
    /\ source_type = ""
    /\ source_id = NoId
    /\ lists = <<>>
    /\ list_pos = 0
    /\ all_tasks = <<>>
    /\ attempt = 0
    /\ call = NoCall
    /\ \E s1, s2 \in StatusLabels :
          tasks = <<TaskS("A", Str(Day(0)), Str(Day(2)), s1),
                    TaskS("B", Null, Str(Day(5)), s2)>>
    /\ image = NoImage
    /\ attachment_id = NoId
    /\ steps = <<>>
    /\ attempted = <<>>
    /\ perm_seen = FALSE
    /\ PubIdle

ColorSpec == InitColor /\ [][NextRender]_vars

-----------------------------------------------------------------------------
(* load_config: the config file, or the environment when there is no file. *)

\* highest numbered project an environment defines
MaxEnvIndex == 3

\* the same, for the environments the whole process is run from
RunEnvIndex == 1

\* the identifiers of one project: each set or not
EnvEntries ==
    {[list |-> l, folder |-> f, page |-> p] :
        l \in {NoId, "L1"}, f \in {NoId, "F1"}, p \in {NoId, "P1"}}

\* the credentials a configuration holds: all, all but one, none
CredChoices == {Credentials, {}} \cup {Credentials \ {c} : c \in Credentials}

\* Python's `a or b` on two identifiers
Or(a, b) == IF a # NoId THEN a ELSE b

\* the three os.getenv of index i; index 1 falls back on the unnumbered names
Getenv(env, i) ==
    LET e == IF i <= Len(env.projects) THEN env.projects[i] ELSE Unset
    IN  IF i > 1 THEN e
        ELSE [list |-> Or(e.list, env.legacy.list),
              folder |-> Or(e.folder, env.legacy.folder),
              page |-> Or(e.page, env.legacy.page)]

StopsAtMissingPage(e) ==
    IF (e.list = NoId /\ e.folder = NoId) \/ e.page = NoId THEN "break" ELSE "append"

\* one pass of `while True`: break, skip the index, or append a mapping
DiscoverDecision(e) ==
    IF e.list = NoId /\ e.folder = NoId THEN "break"
    ELSE IF e.page = NoId THEN "skip"
    ELSE "append"

\* "Crear mapping": name "Proyecto <i>", the page, and the folder or else the list
EnvMapping(i, e) ==
    [name |-> i,
     confluence_page_id |-> e.page,
     clickup_folder_id |-> e.folder,
     clickup_list_id |-> IF e.folder # NoId THEN NoId ELSE e.list]

loadFrame == <<concVars, world, fetchVars, idx, results, summary, attempted, source_type,
               source_id, tasks, image, attachment_id, steps, perm_seen, pubVars>>

\* load_config up to the discovery loop: the file when it exists, else the
\* credentials of the environment
LoadConfig ==
    /\ pc = "load_config"
    /\ CASE config_file = "readable" ->
              /\ \E ms \in MappingLists, cr \in CredChoices :
                    mappings' = ms /\ creds' = cr
              /\ pc' = "main"
              /\ UNCHANGED <<index, exit_code>>
         [] config_file = "unreadable" ->
              /\ pc' = "exited"
              /\ exit_code' = 1
              /\ UNCHANGED <<mappings, creds, index>>
         [] OTHER ->
              /\ creds' = environ.creds
              /\ mappings' = <<>>
              /\ index' = 1
              /\ pc' = "discover"
              /\ UNCHANGED exit_code
    /\ UNCHANGED <<config_file, environ, loadFrame>>

\* one pass of the discovery loop
DiscoverStep ==
    /\ pc = "discover"
    /\ LET e == Getenv(environ, index)
           d == DiscoverDecision(e)
       IN  /\ pc' = IF d = "break" THEN "validate" ELSE "discover"
           /\ index' = IF d = "break" THEN index ELSE index + 1
           /\ mappings' = IF d = "append" THEN Append(mappings, EnvMapping(index, e))
                          ELSE mappings
    /\ UNCHANGED <<config_file, environ, creds, exit_code, loadFrame>>

\* "Validar que las credenciales básicas existan", "Validar que al menos haya
\* un proyecto"
ValidateEnv ==
    /\ pc = "validate"
    /\ IF creds # Credentials \/ mappings = <<>>
       THEN pc' = "exited" /\ exit_code' = 1
       ELSE pc' = "main" /\ UNCHANGED exit_code
    /\ UNCHANGED <<config_file, environ, creds, index, mappings, loadFrame>>

NextConfig == LoadConfig \/ DiscoverStep \/ ValidateEnv

\* the process starts: a config file, or environments of up to n numbered
\* projects; the task tracker is one of ws
InitLoad(n, ws) ==
    /\ pc = "load_config"
    /\ config_file \in {"absent", "unreadable", "readable"}
    /\ IF config_file = "absent"
       THEN \E c \in CredChoices, g \in EnvEntries, k \in 0..n :
               \E ps \in [1..k -> EnvEntries] :
                   environ = [creds |-> c, legacy |-> g, projects |-> ps]
       ELSE environ = NoEnviron
    /\ OneRun
    /\ creds = {}
    /\ index = 0
    /\ mappings = <<>>
    /\ world \in ws
    /\ idx = 1
    /\ results = <<>>
    /\ summary = NoSummary
    /\ exit_code = -1
    /\ source_type = ""
    /\ source_id = NoId
    /\ lists = <<>>
    /\ list_pos = 0
    /\ all_tasks = <<>>
    /\ attempt = 0
    /\ call = NoCall
    /\ tasks = <<>>
    /\ image = NoImage
    /\ attachment_id = NoId
    /\ steps = <<>>
    /\ attempted = <<>>
    /\ perm_seen = FALSE
    /\ PubIdle

InitDiscovery == InitLoad(MaxEnvIndex, {w \in Worlds : w.folder_lists = <<>>})

\* load_config alone; it is sequential code, which runs on until it returns or
\* exits
DiscoverySpec == InitDiscovery /\ [][NextConfig]_vars /\ WF_vars(NextConfig)

InitConfig == InitLoad(RunEnvIndex, Worlds)

\* the whole process, from load_config to the exit
ConfigSpec == InitConfig /\ [][NextConfig \/ Next]_vars

-----------------------------------------------------------------------------
(* Concurrent runs of the process that publish to the same page: each run, of
   one mapping, from the update step to its exit. *)

\* number of concurrent runs
NumRuns == 2

Runs == 1..NumRuns

\* a run about to call update_confluence_with_image, its image uploaded
RunStart ==
    [pc |-> "update_get", page_info |-> NoPage, payload |-> NoPayload,
     reqs |-> <<>>, accepted |-> FALSE, conflict |-> FALSE, results |-> <<>>,
     exit_code |-> -1]

concFrame == <<configVars, mainVars, fetchVars, source_type, source_id, tasks,
               image, attachment_id, steps, perm_seen, pubVars, pc>>

\* run r: GET the page
RunGet(r) ==
    /\ runs[r].pc = "update_get"
    /\ \E o \in PubOutcomes :
        runs' = [runs EXCEPT
            ![r].reqs = Append(@, Req("page_get", o)),
            ![r].page_info = IF o = "ok"
                             THEN [version |-> page.version, title |-> page.title,
                                   type |-> page.type]
                             ELSE @,
            ![r].pc = CASE o = "ok" -> "update_put"
                        [] o = "malformed" -> "exited"
                        [] OTHER -> "returned",
            ![r].exit_code = IF o = "malformed" THEN 1 ELSE @,
            ![r].results = IF o \in {"ok", "malformed"} THEN @
                           ELSE Append(@, MappingResult(FALSE))]
    /\ UNCHANGED <<page, concFrame>>

\* run r: PUT the new body, and the return of process_mapping to the loop
RunPut(r) ==
    /\ runs[r].pc = "update_put"
    /\ LET pl == UpdatePayload(runs[r].page_info, FileName)
       IN  \E o \in PutOutcomes(page, pl), eff \in BOOLEAN :
              LET stored == TakesEffect(o, eff) /\ RemoteAccepts(page, pl)
              IN  /\ page' = IF stored THEN Updated(page, pl) ELSE page
                  /\ runs' = [runs EXCEPT
                        ![r].reqs = Append(@, Req("put", o)),
                        ![r].payload = pl,
                        ![r].accepted = stored,
                        ![r].conflict = ~RemoteAccepts(page, pl),
                        ![r].pc = "returned",
                        ![r].results = Append(@, MappingResult(o = "ok"))]
    /\ UNCHANGED concFrame

\* run r: the loop of __main__ is over, "Resumen final" and the exit code
RunExit(r) ==
    /\ runs[r].pc = "returned"
    /\ runs' = [runs EXCEPT
          ![r].pc = "exited",
          ![r].exit_code = ExitCode(Len(runs[r].results) - Count(runs[r].results, TRUE))]
    /\ UNCHANGED <<page, concFrame>>

NextConc == \E r \in Runs : RunGet(r) \/ RunPut(r) \/ RunExit(r)

InitConc ==
    /\ page \in {d \in DocChoices : FileName \in d.attachments}
    /\ runs = [r \in Runs |-> RunStart]
    /\ config_file = "readable"
    /\ environ = NoEnviron
    /\ creds = Credentials
    /\ index = 0
    /\ mappings = <<>>
    /\ world \in {w \in Worlds : w.folder_lists = <<>>}
    /\ pc = "concurrent"
    /\ idx = 1
    /\ results = <<>>
    /\ summary = NoSummary
    /\ exit_code = -1
    /\ source_type = ""
    /\ source_id = NoId
    /\ lists = <<>>
    /\ list_pos = 0
    /\ all_tasks = <<>>
    /\ attempt = 0
    /\ call = NoCall
    /\ tasks = <<>>
    /\ image = NoImage
    /\ attachment_id = NoId
    /\ steps = <<>>
    /\ attempted = <<>>
    /\ perm_seen = FALSE
    /\ PubIdle

ConcSpec == InitConc /\ [][NextConc]_vars

----------------------------------------------------------------------------
(* Properties. *)

Last(s) == s[Len(s)]

\* a request that ended in a timeout or a connection failure
Transient == {"timeout", "connerr"}

\* the process has ended, by sys.exit or by an uncaught exception
Ended == exit_code # -1

\* C1: the orchestrator attempts every mapping exactly once, in configuration
\* order, whatever the remote calls do: when the process has ended on a
\* configuration with mappings, process_mapping was called for 1, 2, .., n.
C1_EveryMappingAttempted ==
    /\ attempted = [i \in 1..Len(attempted) |-> i]
    /\ (Ended /\ mappings # <<>>) => Len(attempted) = Len(mappings)

\* C2: at the end of the mapping loop the exit code is 0 exactly when every
\* mapping returned success and 1 when one failed, and the reported successes
\* and failures add up to the number of configured mappings.
C2_ExitCodeAndCounts ==
    pc = "exited" /\ mappings # <<>> =>
        /\ Len(results) = Len(mappings)
        /\ exit_code = 0 <=> (\A i \in 1..Len(results) : results[i])
        /\ exit_code = 1 <=> (\E i \in 1..Len(results) : ~results[i])
        /\ summary.successful = Cardinality({i \in 1..Len(results) : results[i]})
        /\ summary.failed = Cardinality({i \in 1..Len(results) : ~results[i]})
        /\ summary.successful + summary.failed = Len(mappings)

\* C2 witness: mapping 1 succeeded, the fetch of mapping 2 failed: 1 success,
\* 1 failure, exit code 1.
C2_Witness ==
    /\ pc = "exited"
    /\ results = <<TRUE, FALSE>>
    /\ steps = <<Step("fetch", FALSE)>>
    /\ summary = [total |-> 2, successful |-> 1, failed |-> 1]
    /\ exit_code = 1

StepOrder == <<"fetch", "render", "upload", "update">>

\* C3: within a mapping the steps run in the order fetch, render, upload,
\* update; a step runs only after the one before it succeeded (render only with
\* tasks, upload only with an image, update only with an attachment id), and
\* process_mapping returns success exactly when all four succeeded.
C3_StepsInOrder ==
    /\ Len(steps) <= 4
    /\ \A i \in 1..Len(steps) : steps[i].step = StepOrder[i]
    /\ \A i \in 1..(Len(steps) - 1) : steps[i].ok
    /\ pc = "generate_gantt_image" =>
            Len(steps) = 1 /\ steps[1].ok /\ tasks # <<>>
    /\ pc \in {"upload_list_attachments", "upload_delete", "upload_post"} =>
            Len(steps) = 2 /\ steps[2].ok /\ ~image.isNone
    /\ pc \in {"update_get", "update_put"} =>
            Len(steps) = 3 /\ steps[3].ok /\ attachment_id # NoId
    /\ (pc \in {"loop", "exited"} /\ results # <<>>) =>
            (Last(results) <=>
                (Len(steps) = 4 /\ \A i \in 1..4 : steps[i].ok))

\* C3 witness: a mapping went through all four steps and the last one failed.
C3_Witness ==
    /\ pc = "loop"
    /\ Len(steps) = 4
    /\ ~steps[4].ok
    /\ Last(results) = FALSE

\* C4: a Task Fetcher call makes at most 3 requests, request k with timeout
\* 15 + 5 * (k - 1); a further request follows only a timeout or a connection
\* failure, and either of them on the third request makes the call return None.
C4_RetryBudget ==
    /\ Len(call.sent) <= 3
    /\ Len(call.sent) = Len(call.outcomes)
    /\ \A k \in 1..Len(call.sent) : call.sent[k] = 15 + 5 * (k - 1)
    /\ \A k \in 1..(Len(call.outcomes) - 1) : call.outcomes[k] \in Transient
    /\ (Len(call.outcomes) = 3 /\ call.outcomes[3] \in Transient) =>
            call.done /\ call.ret = None /\ ~call.raised

\* C4 witness: three requests of the folder resolution, with timeouts 15, 20
\* and 25, each timed out or failed to connect.
C4_Witness ==
    /\ call.fn = "get_lists_from_folder"
    /\ call.sent = <<15, 20, 25>>
    /\ call.outcomes = <<"timeout", "connerr", "timeout">>
    /\ call.done

\* what a successful response to the call carries
ResponseData(c) ==
    IF c.fn = "get_lists_from_folder" THEN world.folder_lists
    ELSE world.list_tasks[c.arg]

\* C5: a Task Fetcher call returns the result of the first request that neither
\* times out nor fails to connect (the data of a 200 response, in particular
\* after two timeouts); when all three requests time out or fail to connect it
\* returns None and raises nothing.
C5_FirstConclusiveAttempt ==
    LET n == Len(call.outcomes)
    IN  /\ call.done => n >= 1
        /\ (~call.done /\ n >= 1) => (n < 3 /\ \A k \in 1..n : call.outcomes[k] \in Transient)
        /\ call.done =>
            /\ \A k \in 1..(n - 1) : call.outcomes[k] \in Transient
            /\ Last(call.outcomes) = "ok" =>
                    call.ret = Some(ResponseData(call)) /\ ~call.raised
            /\ Last(call.outcomes) \in Transient =>
                    n = 3 /\ call.ret = None /\ ~call.raised

\* C5 witness: two timeouts, then a response with tasks, which the call returns.
C5_Witness ==
    /\ call.fn = "get_clickup_tasks"
    /\ call.done
    /\ call.outcomes = <<"timeout", "timeout", "ok">>
    /\ call.ret = Some(<<TA>>)

\* the per-mapping history describes the mapping that finished last
MappingFinished == pc \in {"loop", "exited"} /\ results # <<>>

\* C6: a 401, 403 or 404 on any request of a Task Fetcher call ends the call
\* with None on that request, and the mapping is marked failed.
C6_PermanentErrorFailsMapping ==
    /\ \A k \in 1..(Len(call.outcomes) - 1) : call.outcomes[k] \notin PermanentStatus
    /\ (call.outcomes # <<>> /\ Last(call.outcomes) \in PermanentStatus) =>
            call.done /\ call.ret = None
    /\ (perm_seen /\ MappingFinished) => ~Last(results)

RECURSIVE TasksOfLists(_)
\* the tasks of the given lists, concatenated in list order
TasksOfLists(ls) ==
    IF ls = <<>> THEN <<>>
    ELSE world.list_tasks[Head(ls)] \o TasksOfLists(Tail(ls))

\* C7: for a folder, get_all_tasks_from_source returns None or the tasks of
\* every list of the folder, concatenated in list order; it returns None when
\* the folder resolution failed.
C7_FolderFetchComplete ==
    (source_type = "folder" /\ steps # <<>>) =>
        /\ steps[1].ok => tasks = TasksOfLists(world.folder_lists)
        /\ (call.fn = "get_lists_from_folder" /\ call.done) => ~steps[1].ok

\* the record carries a millisecond timestamp in this field
Present(ts) == ts.kind \in {"num", "str"}

\* the datetime a millisecond timestamp stands for
Decoded(ts) == Date(ts.v \div 1000, (ts.v % 1000) * 1000)

\* the input record a chart task was made from (names are unique in the input)
InputOf(c) == CHOOSE t \in {tasks[i] : i \in 1..Len(tasks)} : t.name = c.name

ChartTasks == {image.valid_tasks[i] : i \in 1..Len(image.valid_tasks)}

\* C8: an included task with both timestamps keeps both, decoded; with only a
\* due timestamp T it gets start = T - 1 day and end = T; with only a start
\* timestamp T it gets start = T and end = T + 1 day.
C8_DateResolution ==
    pc = "render_done" =>
        \A c \in ChartTasks :
            LET t == InputOf(c)
                s == t.start_date
                d == t.due_date
            IN  /\ (Present(s) /\ Present(d)) =>
                        c.start = Decoded(s) /\ c.end = Decoded(d)
                /\ (~Present(s) /\ Present(d)) =>
                        c.start = AddDays(Decoded(d), -1) /\ c.end = Decoded(d)
                /\ (Present(s) /\ ~Present(d)) =>
                        c.start = Decoded(s) /\ c.end = AddDays(Decoded(s), 1)

\* C9: a record is left out of the chart exactly when it carries neither
\* timestamp (a timestamp of 0 counts as carried); every chart task has both
\* dates; chart tasks = input tasks - records without both timestamps.
C9_ExcludedIffNoTimestamp ==
    pc = "render_done" =>
        /\ \A i \in 1..Len(tasks) :
                (\E c \in ChartTasks : c.name = tasks[i].name)
                    <=> (Present(tasks[i].start_date) \/ Present(tasks[i].due_date))
        /\ \A c \in ChartTasks : ~c.start.isNone /\ ~c.end.isNone
        /\ Len(image.valid_tasks) = Len(tasks) -
                Cardinality({i \in 1..Len(tasks) :
                    ~Present(tasks[i].start_date) /\ ~Present(tasks[i].due_date)})

\* the scenario A(start = Day 0, end = Day 2), B(due = Day 5), C(no date)
ScenarioTasks ==
    <<Task("A", Str(Day(0)), Str(Day(2))), Task("B", Null, Str(Day(5))),
      Task("C", Null, Null)>>

\* C10: the chart tasks are in ascending order of start, and the bars are the
\* chart tasks drawn in reversed order: of two tasks with different starts the
\* earlier one has the higher vertical index.  In the scenario the chart is
\* [A, B] and B starts on Day 4.
C10_SortedAndReversed ==
    (pc = "render_done" /\ ~image.isNone) =>
        LET vt == image.valid_tasks
            n == Len(vt)
        IN  /\ \A i, j \in 1..n : i < j => ~DateLess(vt[j].start, vt[i].start)
            /\ Len(image.bars) = n
            /\ {image.bars[i].idx : i \in 1..n} = 0..(n - 1)
            /\ \A i \in 1..n : \E j \in 1..n :
                    image.bars[j].name = vt[i].name /\ image.bars[j].left = vt[i].start
            /\ \A i, j \in 1..n :
                    DateLess(image.bars[i].left, image.bars[j].left)
                        => image.bars[i].idx > image.bars[j].idx
            /\ tasks = ScenarioTasks =>
                    /\ [i \in 1..n |-> vt[i].name] = <<"A", "B">>
                    /\ vt[1].start = Date((DayZero + 0) * SecPerDay, 0)
                    /\ vt[1].end = Date((DayZero + 2) * SecPerDay, 0)
                    /\ vt[2].start = Date((DayZero + 4) * SecPerDay, 0)
                    /\ vt[2].end = Date((DayZero + 5) * SecPerDay, 0)

\* C10 witness: the scenario was rendered, A drawn above B.
C10_Witness ==
    /\ pc = "render_done"
    /\ tasks = ScenarioTasks
    /\ Len(image.bars) = 2
    /\ image.bars[1].name = "B" /\ image.bars[1].idx = 0
    /\ image.bars[2].name = "A" /\ image.bars[2].idx = 1

\* the status label of the chart task a bar was drawn for
StatusOfBar(b) ==
    (CHOOSE c \in ChartTasks : c.name = b.name).status

\* the table entries whose pattern occurs in the text
Hits(text) == {i \in 1..Len(status_colors) : Contains(status_colors[i].key, text)}

\* the colour of the first table entry whose pattern occurs, light gray if none
ExpectedColor(status) ==
    LET h == Hits(Upper(status))
    IN  IF h = {} THEN "#e0e0e0"
        ELSE status_colors[CHOOSE i \in h : \A j \in h : i <= j].col

DoneLabels == {<<"C", "O", "M", "P", "L", "E", "T", "E", "D">>, <<"c", "o", "m", "p", "l", "e", "t", "e">>, <<"D", "o", "n", "e">>, <<"c", "l", "o", "s", "e", "d">>, <<"A", "p", "p", "r", "o", "v", "e", "d">>, <<"a", "c", "h", "i", "e", "v", "e", "d">>, <<"f", "i", "n", "a", "l", "i", "z", "e", "d">>}
InProgressLabels == {<<"i", "n", " ", "p", "r", "o", "g", "r", "e", "s", "s">>, <<"P", "R", "O", "G", "R", "E", "S", "S">>, <<"r", "e", "v", "i", "e", "w", "i", "n", "g">>, <<"I", "m", "p", "l", "e", "m", "e", "n", "t", "i", "n", "g">>, <<"m", "o", "n", "i", "t", "o", "r", "i", "n", "g">>}
NotStartedLabels == {<<"t", "o", " ", "d", "o">>, <<"T", "O", "D", "O">>, <<"O", "p", "e", "n">>, <<"d", "r", "a", "f", "t", "i", "n", "g">>, <<"N", "o", "t", " ", "S", "t", "a", "r", "t", "e", "d">>}
UnknownLabels == {<<"S", "i", "n", " ", "S", "t", "a", "t", "u", "s">>, <<"b", "l", "o", "c", "k", "e", "d">>, <<"I", "n", " ", "R", "e", "v", "i", "e", "w">>, <<>>}

\* C11: a bar's colour is that of the first table entry, in table order, whose
\* pattern occurs in the upper-cased status, light gray (#e0e0e0) when none
\* does: "COMPLETED" and "complete" both get #8dd879, the in-progress labels
\* get blue, the not-started and the unrecognised labels get light gray.
C11_StatusColor ==
    pc = "render_done" =>
        \A i \in 1..Len(image.bars) :
            LET b == image.bars[i]
                st == StatusOfBar(b)
            IN  /\ b.color = ExpectedColor(st)
                /\ st \in DoneLabels => b.color = "#8dd879"
                /\ st \in InProgressLabels => b.color = "#a8c5f0"
                /\ st \in NotStartedLabels \cup UnknownLabels => b.color = "#e0e0e0"

\* C11 witness: "COMPLETED" and "complete" drawn in the same done colour.
C11_Witness ==
    /\ pc = "render_done"
    /\ Len(image.bars) = 2
    /\ StatusOfBar(image.bars[1]) = <<"c", "o", "m", "p", "l", "e", "t", "e">>
    /\ StatusOfBar(image.bars[2]) = <<"C", "O", "M", "P", "L", "E", "T", "E", "D">>
    /\ image.bars[1].color = "#8dd879"
    /\ image.bars[2].color = "#8dd879"

\* C12: for a non-empty chart the axis starts 7 days before the earliest
\* resolved start and ends 7 days after the latest resolved end.
C12_AxisRange ==
    (pc = "render_done" /\ ~image.isNone) =>
        /\ \E c \in ChartTasks :
                /\ image.xlim[1] = [c.start EXCEPT !.sec = @ - 7 * 86400]
                /\ \A d \in ChartTasks : ~DateLess(d.start, c.start)
        /\ \E c \in ChartTasks :
                /\ image.xlim[2] = [c.end EXCEPT !.sec = @ + 7 * 86400]
                /\ \A d \in ChartTasks : ~DateLess(c.end, d.end)

\* C12 witness: a chart whose latest end is not that of its last-starting task.
C12_Witness ==
    /\ pc = "render_done"
    /\ Len(image.valid_tasks) = 2
    /\ DateLess(image.valid_tasks[2].end, image.valid_tasks[1].end)
    /\ image.xlim[2] = AddDays(image.valid_tasks[1].end, 7)

\* positions in the mapping's publisher requests of the requests of one kind
PositionsOf(kind) == {i \in DOMAIN pub_reqs : pub_reqs[i].req = kind}

\* upload_attachment_to_confluence was called and is no longer running
UploadLeft ==
    /\ pub_reqs # <<>>
    /\ pc \notin {"upload_list_attachments", "upload_delete", "upload_post"}

Recorded(name, ok) == \E i \in DOMAIN steps : steps[i] = Step(name, ok)

\* C13: in the upload step a delete request is issued only for an existing
\* attachment whose title is the new file name, at most once and before the
\* upload request; the upload request is issued exactly once whatever the
\* listing or the delete did; and the step returns the attachment's identifier,
\* or the failure signal when the upload request did not give one.
C13_UploadStep ==
    LET dels == PositionsOf("delete")
        posts == PositionsOf("post")
    IN  /\ Cardinality(dels) <= 1
        /\ \A d \in dels :
              /\ delete_target = FileName
              /\ FileName \in doc0.attachments
              /\ pub_reqs[d - 1] = Req("list_attachments", "ok")
              /\ \A q \in posts : d < q
        /\ Cardinality(posts) <= 1
        /\ UploadLeft =>
              /\ Cardinality(posts) = 1
              /\ \A q \in posts :
                    IF pub_reqs[q].outcome = "ok"
                    THEN attachment_id # NoId /\ Recorded("upload", TRUE)
                    ELSE attachment_id = NoId /\ Recorded("upload", FALSE)

\* C14: the update step submits at most one content update, with the version
\* number fetched in the same call plus one and the fetched title and type; a
\* failed fetch of the page submits no update; and a failed fetch or a failed
\* or rejected update ends the mapping with failure, with no further request
\* and no exception.
C14_UpdateStep ==
    LET gets == PositionsOf("page_get")
        puts == PositionsOf("put")
        Failed == {"timeout", "httperr"}
        ReportedFailure ==
            /\ pc \in {"loop", "exited"}
            /\ Last(results) = FALSE
            /\ Recorded("update", FALSE)
    IN  /\ Cardinality(gets) <= 1
        /\ Cardinality(puts) <= 1
        /\ \A p \in puts :
              /\ pub_reqs[p - 1] = Req("page_get", "ok")
              /\ page_info.version = doc0.version
              /\ payload.version = page_info.version + 1
              /\ payload.title = page_info.title
              /\ payload.type = page_info.type
        /\ \A g \in gets :
              pub_reqs[g].outcome \in Failed =>
                  puts = {} /\ g = Len(pub_reqs) /\ ReportedFailure
        /\ \A p \in puts :
              pub_reqs[p].outcome \in Failed =>
                  p = Len(pub_reqs) /\ ReportedFailure

\* an update was submitted at version 2 for a page fetched at version 1 and was
\* refused
C14_Witness ==
    /\ pub_reqs # <<>>
    /\ results # <<>>
    /\ Last(pub_reqs) = Req("put", "httperr")
    /\ page_info.version = 1
    /\ payload = [version |-> 2, title |-> "Plan", type |-> "page",
                  filename |-> FileName]
    /\ Last(results) = FALSE

\* process_mapping is between its first request and its return
Processing ==
    pc \in {"get_clickup_tasks", "get_lists_from_folder", "generate_gantt_image",
            "upload_list_attachments", "upload_delete", "upload_post",
            "update_get", "update_put"}

NoSource(m) == m.clickup_list_id = NoId /\ m.clickup_folder_id = NoId

\* C16: a mapping that is being processed has exactly one source identifier in
\* effect, a list's or a folder's, taken from the mapping; a mapping with
\* neither identifier is marked failed without any fetch, render, upload or
\* update call.
C16_OneSourceInEffect ==
    /\ Processing =>
          /\ source_type \in {"list", "folder"}
          /\ source_id # NoId
          /\ source_type = "list" => source_id = mappings[idx].clickup_list_id
          /\ source_type = "folder" => source_id = mappings[idx].clickup_folder_id
    /\ \A i \in DOMAIN results : NoSource(mappings[i]) => results[i] = FALSE
    /\ (attempted # <<>> /\ NoSource(mappings[Last(attempted)])) =>
          /\ ~Processing
          /\ call = NoCall
          /\ steps = <<>>
          /\ image = NoImage
          /\ pub_reqs = <<>>

\* a mapping with both identifiers was published from its list, and the mapping
\* after it, with neither, was marked failed
C16_Witness ==
    /\ mappings = <<Mapping("L1", "F1"), Mapping(NoId, NoId)>>
    /\ attempted = <<1, 2>>
    /\ results = <<TRUE, FALSE>>
    /\ pub_reqs = <<>>

\* C20: the fetcher hands no empty task set to the renderer, and the renderer
\* gives no image when no fetched record survives date resolution; in both
\* cases the mapping is marked failed and no listing, delete, upload or update
\* request is sent for it.
C20_NothingPublishedWithoutTasks ==
    LET Stopped ==
            /\ pc \in {"loop", "exited"}
            /\ Last(results) = FALSE
            /\ pub_reqs = <<>>
    IN  /\ pc = "generate_gantt_image" => tasks # <<>>
        /\ Recorded("fetch", TRUE) => tasks # <<>> /\ tasks = all_tasks
        /\ (call.done /\ ~call.raised /\ ~Processing /\ all_tasks = <<>>) =>
              Recorded("fetch", FALSE)
        /\ Recorded("fetch", FALSE) => Stopped /\ image = NoImage
        /\ Recorded("render", TRUE) => ValidTasks(tasks) # <<>> /\ image # NoImage
        /\ Recorded("render", FALSE) => Stopped
        /\ (Recorded("render", TRUE) \/ Recorded("render", FALSE)) =>
              (ValidTasks(tasks) = <<>> <=> Recorded("render", FALSE))
        /\ pub_reqs # <<>> => ValidTasks(tasks) # <<>>

\* a folder whose lists hold a single task, without dates: the fetch succeeded,
\* the renderer gave no image and the mapping failed with no request sent
C20_Witness ==
    /\ source_type = "folder"
    /\ tasks = <<TC>>
    /\ steps = <<Step("fetch", TRUE), Step("render", FALSE)>>
    /\ results = <<FALSE>>
    /\ pub_reqs = <<>>

\* the page body names an attachment the page has
BodyResolves(d) == d.body \in d.attachments

\* C19: publishing never leaves the page pointing at a missing attachment: if
\* the body named an existing attachment before the mapping was processed, it
\* names an existing attachment when the mapping has finished, with success or
\* with failure at any step.
C19_BodyStillResolves ==
    (MappingFinished /\ BodyResolves(doc0)) => BodyResolves(doc)

\* load_config has returned or has ended the process
LoadLeft == pc \notin {"load_config", "discover", "validate"}

\* what load_config ended with is a configuration error
ConfigError ==
    \/ config_file = "unreadable"
    \/ creds # Credentials
    \/ mappings = <<>>

\* C17: a configuration error (an unreadable configuration, a missing
\* credential, no mapping) ends the process with code 1 at once, before any
\* mapping is processed and any remote call is made, whether the configuration
\* came from the file or from the environment: past the check of __main__ the
\* process has exited with 1 and has attempted nothing.
C17_ConfigErrorsFatal ==
    (LoadLeft /\ ConfigError) =>
        /\ pc \in {"main", "exited"}
        /\ pc = "exited" => exit_code = 1
        /\ attempted = <<>>
        /\ call = NoCall
        /\ pub_reqs = <<>>
        /\ summary = NoSummary

\* index i of the environment defines neither a list nor a folder
NoSourceAt(env, i) == Getenv(env, i).list = NoId /\ Getenv(env, i).folder = NoId

\* the first index with neither a list nor a folder
StopIndex(env) ==
    CHOOSE k \in 1..(Len(env.projects) + 2) :
        NoSourceAt(env, k) /\ \A j \in 1..(k - 1) : ~NoSourceAt(env, j)

\* the indices below k that have a page
Kept(env, k) == {i \in 1..(k - 1) : Getenv(env, i).page # NoId}

\* load_config in the environment: the scan is at or below the first index k
\* with neither a list nor a folder, and the mappings found so far are the
\* indices below the scan that have a page, in order, each with one source
DiscoveryInvariant ==
    config_file = "absent" /\ pc # "load_config" =>
        LET k == StopIndex(environ)
        IN  /\ index \in 1..k
            /\ index <= Len(environ.projects) + 2
            /\ pc # "discover" => index = k
            /\ Len(mappings) = Cardinality(Kept(environ, index))
            /\ \A j \in DOMAIN mappings :
                  LET m == mappings[j]
                      e == Getenv(environ, m.name)
                  IN  /\ m.name \in Kept(environ, index)
                      /\ j > 1 => mappings[j - 1].name < m.name
                      /\ m.confluence_page_id = e.page
                      /\ (m.clickup_list_id # NoId) # (m.clickup_folder_id # NoId)
                      /\ m.clickup_folder_id = e.folder
                      /\ e.folder = NoId => m.clickup_list_id = e.list

\* C18: the discovery of mappings in the environment terminates: it scans the
\* indices 1, 2, 3, .. and stops at the first index k with neither a list nor a
\* folder identifier; the mappings it found are the indices below k that have a
\* page identifier, in index order, each with exactly one source identifier,
\* the folder's when both are defined.
C18_DiscoveryLoop ==
    /\ []DiscoveryInvariant
    /\ <>(pc \notin {"load_config", "discover"})

\* index 1 has a list but no page and is skipped, index 2 has a list, a folder
\* and a page and gives a folder mapping, index 3 has nothing: the scan stops
C18_Witness ==
    /\ pc = "main"
    /\ environ.projects = <<[list |-> "L1", folder |-> NoId, page |-> NoId],
                            [list |-> "L1", folder |-> "F1", page |-> "P1"],
                            Unset>>
    /\ environ.legacy = Unset
    /\ index = 3
    /\ mappings = <<EnvMapping(2, [list |-> NoId, folder |-> "F1", page |-> "P1"])>>

\* the runs whose update the page took
Accepted == {r \in Runs : runs[r].accepted}

Submitted(r) == \E i \in DOMAIN runs[r].reqs : runs[r].reqs[i].req = "put"

\* C15: with runs publishing to the same page concurrently and a page that
\* takes an update only at its current version + 1: of two updates computed
\* from the same fetched version at most one is accepted, the page version
\* advances by exactly 1 per accepted update, and a run whose update is
\* rejected marks the mapping failed and exits with code 1 without a second
\* update.
C15_OptimisticVersion ==
    /\ \A r1, r2 \in Runs :
          (r1 # r2 /\ Submitted(r1) /\ Submitted(r2)
              /\ runs[r1].page_info.version = runs[r2].page_info.version) =>
              ~(runs[r1].accepted /\ runs[r2].accepted)
    /\ page.version = 1 + Cardinality(Accepted)
    /\ \A r \in Accepted : runs[r].payload.version \in 2..page.version
    /\ \A r \in Runs :
          runs[r].conflict =>
              /\ ~runs[r].accepted
              /\ runs[r].pc \in {"returned", "exited"}
              /\ runs[r].results = <<FALSE>>
              /\ runs[r].pc = "exited" => runs[r].exit_code = 1
              /\ Cardinality({i \in DOMAIN runs[r].reqs :
                                 runs[r].reqs[i].req = "put"}) = 1
              /\ Last(runs[r].reqs).req = "put"

\* both runs fetched version 1; the update of run 1 was taken, that of run 2
\* was refused, and run 2 has exited with 1
C15_Witness ==
    /\ runs # <<>>
    /\ runs[1].page_info.version = 1
    /\ runs[2].page_info.version = 1
    /\ runs[1].accepted
    /\ runs[2].conflict
    /\ runs[2].pc = "exited"
    /\ runs[2].exit_code = 1
    /\ page.version = 2

====
